---- MODULE Spec2Model ----
(***************************************************************************)
(* Model of src/main.py: the allow-list manager (WhiteListManager), the    *)
(* message middleware and command handlers, and the QR session manager     *)
(* (WorkingSessionManager) with its handler and monitoring tasks, split at *)
(* the await points of the asyncio event loop.                             *)
(***************************************************************************)
EXTENDS Integers, Sequences, FiniteSets, TLC

\* ---------------------------------------------------------------- bounds
\* identities are 0..MaxId
MaxId == 1
\* number of QR-method requests (one TelegramClient each) in Spec
MaxReq == 2
\* longest member list of a store found on disk at start-up
MaxFileLen == 2

\* ADMIN_ID = int(os.environ.get('ADMIN_ID', '0'))
ADMIN_ID == 0

Ids == 0..MaxId
Slots == 1..MaxReq

VARIABLES
  phase,            \* "boot" before WhiteListManager() ran, "run" after
  whitelist,        \* WhiteListManager.whitelist
  file,             \* contents of WHITELIST_FILE
  last,             \* what the step just taken answered at the transport
  active_sessions,  \* WorkingSessionManager.active_sessions: owner -> record (0: absent)
  user_messages,    \* WorkingSessionManager.user_messages: owner -> message (0: absent)
  pc,               \* position of each request's handler / monitoring task
  owner,            \* callback.from_user.id of each request
  data,             \* record captured by the monitoring task (line 166)
  ref,              \* client a create/cleanup call is awaiting disconnect() on
  conn,             \* state of each TelegramClient
  discs,            \* number of disconnect() invocations on each client
  trail             \* what each monitoring task holds in its try block and has sent

gateVars == <<phase, whitelist, file>>
tableVars == <<active_sessions, user_messages>>
taskVars == <<pc, owner, data, ref>>
clientVars == <<conn, discs>>
sessVars == <<active_sessions, user_messages, pc, owner, data, ref, conn, discs, trail>>
vars == <<phase, whitelist, file, last, active_sessions, user_messages,
          pc, owner, data, ref, conn, discs, trail>>

\* ------------------------------------------------------- persisted store
AbsentFile == [kind |-> "absent", users |-> <<>>]
\* exists, but open() / json.load() raises
CorruptFile == [kind |-> "corrupt", users |-> <<>>]
\* valid JSON object without a 'users' key
NoKeyFile == [kind |-> "nokey", users |-> <<>>]
JsonFile(s) == [kind |-> "json", users |-> s]

SeqsUpTo(S, n) == UNION {[1..k -> S] : k \in 0..n}

\* set(data.get('users', []))
SetOf(s) == {s[i] : i \in 1..Len(s)}

\* list(self.whitelist): the members, each once, in the set's iteration order
ListsOf(S) == {s \in [1..Cardinality(S) -> S] : SetOf(s) = S}

\* the member set a store records (none when it cannot be read)
Persisted(f) == IF f.kind = "json" THEN SetOf(f.users) ELSE {}
Readable(f) == f.kind \in {"json", "nokey"}

\* save_whitelist: the files it can leave behind. open(..., 'w') may raise
\* before truncating (file untouched), json.dump may raise after it
\* (truncated file); both exceptions are logged and swallowed.
SaveOutcomes(wl, f) ==
  {JsonFile(s) : s \in ListsOf(wl)} \cup {f, CorruptFile}

\* load_whitelist: the pairs <<whitelist, file>> it can end in
LoadOutcomes(f) ==
  CASE f.kind = "json"   -> {<<SetOf(f.users), f>>}
    [] f.kind = "nokey"  -> {<<{}, f>>}
    [] f.kind = "absent" -> {<<{}, g>> : g \in SaveOutcomes({}, f)}
    [] OTHER             -> {<<{}, f>>}

is_allowed(wl, user_id) == user_id \in wl

\* add_user without the membership test's effect on the write: it saves either way
add_user_resaves(wl, user_id) ==
  [ret |-> user_id \notin wl, wl |-> wl \cup {user_id}, saves |-> 1]

\* add_user / remove_user: return value, new set, number of save_whitelist calls
add_user(wl, user_id) ==
  IF user_id \notin wl
    THEN [ret |-> TRUE, wl |-> wl \cup {user_id}, saves |-> 1]
    ELSE [ret |-> FALSE, wl |-> wl, saves |-> 0]

remove_user(wl, user_id) ==
  IF user_id \in wl
    THEN [ret |-> TRUE, wl |-> wl \ {user_id}, saves |-> 1]
    ELSE [ret |-> FALSE, wl |-> wl, saves |-> 0]

\* is_admin that accepts every sender
is_admin_anyone(user_id) == user_id = user_id

is_admin(user_id) == user_id = ADMIN_ID

\* ------------------------------------------------------------- messages
\* message.text.split(): the command token and, for /add and /remove, one argument
IdToken(i) == ToString(i)
ArgTokens == {IdToken(i) : i \in Ids} \cup {"abc"}
PlainTokens == {"/start", "/help", "/check", "/whitelist", "/add", "/remove",
                "/debug", "hello"}
Texts == {<<t>> : t \in PlainTokens}
           \cup {<<t, a>> : t \in {"/add", "/remove"}, a \in ArgTokens}

\* event.text[1:].split(' ')[0].lower() when the text starts with '/'
CommandOf(text) ==
  CASE text[1] = "/start"     -> "start"
    [] text[1] = "/help"      -> "help"
    [] text[1] = "/check"     -> "check"
    [] text[1] = "/whitelist" -> "whitelist"
    [] text[1] = "/add"       -> "add"
    [] text[1] = "/remove"    -> "remove"
    [] text[1] = "/debug"     -> "debug"
    [] OTHER                  -> ""

public_commands == {"start", "help"}

\* int(args[1]): IsInt is false where int() raises ValueError
IsInt(tok) == \E i \in Ids : IdToken(i) = tok
ParseInt(tok) == CHOOSE i \in Ids : IdToken(i) = tok

NoReply == [text |-> <<>>, from |-> ADMIN_ID, out |-> "none", saves |-> 0]
Reply(text, user_id, out, saves) ==
  [text |-> text, from |-> user_id, out |-> out, saves |-> saves]


\* ------------------------------------------------------ initial states
InitFiles ==
  {AbsentFile, CorruptFile, NoKeyFile}
    \cup {JsonFile(s) : s \in SeqsUpTo(Ids, MaxFileLen)}

\* a monitoring task that has done nothing yet. The first four fields are
\* what the coroutine holds while it is inside its try block and are gone
\* when it leaves the block; the last two are what the user has been sent.
\*   wait  the ticket resolved within the budget (line 174 returned)
\*   auth  is_authorized (line 180), "none" before
\*   cred  the client whose session.save() is in session_string (line 189), 0: none
\*   to    the message session_string is handed to (lines 195-202), 0: none
\*   sent  both sends returned (line 203 reached)
\*   told  the message a failure message was sent to (lines 184, 208, 212), 0: none
NoTrail == [wait |-> FALSE, auth |-> "none", cred |-> 0, to |-> 0,
            sent |-> FALSE, told |-> 0]

NoSessions ==
  /\ active_sessions = [u \in Ids |-> 0]
  /\ user_messages = [u \in Ids |-> 0]
  /\ pc = [r \in Slots |-> "idle"]
  /\ owner = [r \in Slots |-> ADMIN_ID]
  /\ data = [r \in Slots |-> 0]
  /\ ref = [r \in Slots |-> 0]
  /\ conn = [r \in Slots |-> "new"]
  /\ discs = [r \in Slots |-> 0]
  /\ trail = [r \in Slots |-> NoTrail]

\* before `whitelist_manager = WhiteListManager()` (line 108)
GateInit ==
  /\ phase = "boot"
  /\ whitelist = {}
  /\ file \in InitFiles
  /\ last = NoReply
  /\ NoSessions

\* ------------------------------------------------- WhiteListManager()
\* __init__: self.whitelist = set(); self.load_whitelist()
LoadWhitelist ==
  /\ phase = "boot"
  /\ phase' = "run"
  /\ \E o \in LoadOutcomes(file) : whitelist' = o[1] /\ file' = o[2]
  /\ last' = Reply(<<"load">>, ADMIN_ID,
                   IF Readable(file) \/ file.kind = "absent" THEN "loaded" ELSE "load_error",
                   IF file.kind = "absent" THEN 1 ELSE 0)
  /\ UNCHANGED sessVars

\* ------------------------------------------------ whitelist_middleware
\* the middleware letting every command through, not only the public ones
whitelist_middleware_all_commands(wl, user_id, text) ==
  IF CommandOf(text) # "" THEN "handler"
  ELSE IF ~is_allowed(wl, user_id) THEN "denied"
  ELSE "handler"

\* "handler" when the event is passed on, "denied" when it is answered here
whitelist_middleware(wl, user_id, text) ==
  IF CommandOf(text) \in public_commands THEN "handler"
  ELSE IF ~is_allowed(wl, user_id) THEN "denied"
  ELSE "handler"

Routed(user_id, text, cmd) ==
  /\ phase = "run"
  /\ CommandOf(text) = cmd
  /\ whitelist_middleware(whitelist, user_id, text) = "handler"

MessageDenied(user_id, text) ==
  /\ phase = "run"
  /\ whitelist_middleware(whitelist, user_id, text) = "denied"
  /\ last' = Reply(text, user_id, "denied", 0)
  /\ UNCHANGED <<gateVars, sessVars>>

\* a non-command message of an admitted sender: no handler is registered for it
PlainText(user_id, text) ==
  /\ Routed(user_id, text, "")
  /\ last' = Reply(text, user_id, "unhandled", 0)
  /\ UNCHANGED <<gateVars, sessVars>>

cmd_start(user_id, text) ==
  /\ Routed(user_id, text, "start")
  /\ last' = Reply(text, user_id,
                   IF ~is_allowed(whitelist, user_id) THEN "welcome_denied" ELSE "entry", 0)
  /\ UNCHANGED <<gateVars, sessVars>>

cmd_help(user_id, text) ==
  /\ Routed(user_id, text, "help")
  /\ last' = Reply(text, user_id, IF is_admin(user_id) THEN "help_admin" ELSE "help", 0)
  /\ UNCHANGED <<gateVars, sessVars>>

\* /check answered from the sender's live connections instead of the table
cmd_check_by_connection(user_id, text) ==
  /\ Routed(user_id, text, "check")
  /\ last' = Reply(text, user_id,
                   IF ~is_allowed(whitelist, user_id) THEN "no_access"
                   ELSE IF \E r \in Slots : owner[r] = user_id /\ conn[r] = "live"
                     THEN "active"
                   ELSE "inactive", 0)
  /\ UNCHANGED <<gateVars, sessVars>>

cmd_check(user_id, text) ==
  /\ Routed(user_id, text, "check")
  /\ last' = Reply(text, user_id,
                   IF ~is_allowed(whitelist, user_id) THEN "no_access"
                   ELSE IF active_sessions[user_id] # 0 THEN "active"
                   ELSE "inactive", 0)
  /\ UNCHANGED <<gateVars, sessVars>>

cmd_whitelist(user_id, text) ==
  /\ Routed(user_id, text, "whitelist")
  /\ last' = Reply(text, user_id,
                   IF ~is_admin(user_id) THEN "admin_only"
                   ELSE IF whitelist = {} THEN "list_empty"
                   ELSE "list", 0)
  /\ UNCHANGED <<gateVars, sessVars>>

\* cmd_add_user / cmd_remove_user up to the call of the manager: the admin
\* check (lines 358-360) and the argument parsing (lines 363-368, 375-376)
ArgProblem(user_id, text) ==
  IF ~is_admin(user_id) THEN "admin_only"
  ELSE IF Len(text) < 2 THEN "usage"
  ELSE IF ~IsInt(text[2]) THEN "bad_id"
  ELSE "ok"

\* r is what add_user / remove_user returned: the new set replaces the old
\* one and save_whitelist runs when the manager asked for it
Apply(user_id, text, r, yes, no) ==
  /\ whitelist' = r.wl
  /\ IF r.saves > 0
       THEN file' \in SaveOutcomes(r.wl, file)
       ELSE file' = file
  /\ last' = Reply(text, user_id, IF r.ret THEN yes ELSE no, r.saves)
  /\ UNCHANGED phase

cmd_add_user(user_id, text) ==
  /\ Routed(user_id, text, "add")
  /\ IF ArgProblem(user_id, text) # "ok"
       THEN /\ last' = Reply(text, user_id, ArgProblem(user_id, text), 0)
            /\ UNCHANGED gateVars
       ELSE Apply(user_id, text, add_user(whitelist, ParseInt(text[2])),
                  "added", "already")
  /\ UNCHANGED sessVars

\* /remove that also drops the removed owner's record from the session table
cmd_remove_user_closes(user_id, text) ==
  /\ Routed(user_id, text, "remove")
  /\ IF ArgProblem(user_id, text) # "ok"
       THEN /\ last' = Reply(text, user_id, ArgProblem(user_id, text), 0)
            /\ UNCHANGED <<gateVars, sessVars>>
       ELSE /\ Apply(user_id, text, remove_user(whitelist, ParseInt(text[2])),
                     "removed", "not_found")
            /\ active_sessions' = [active_sessions EXCEPT ![ParseInt(text[2])] = 0]
            /\ UNCHANGED <<user_messages, taskVars, clientVars, trail>>

cmd_remove_user(user_id, text) ==
  /\ Routed(user_id, text, "remove")
  /\ IF ArgProblem(user_id, text) # "ok"
       THEN /\ last' = Reply(text, user_id, ArgProblem(user_id, text), 0)
            /\ UNCHANGED gateVars
       ELSE Apply(user_id, text, remove_user(whitelist, ParseInt(text[2])),
                  "removed", "not_found")
  /\ UNCHANGED sessVars

\* cmd_debug: is_user_authorized() on the sender's own record, read only
cmd_debug(user_id, text) ==
  /\ Routed(user_id, text, "debug")
  /\ \E answer \in {"debug", "debug_error"} :
       last' = Reply(text, user_id,
                     IF ~is_admin(user_id) THEN "admin_only"
                     ELSE IF active_sessions[user_id] # 0 THEN answer
                     ELSE "inactive", 0)
  /\ UNCHANGED <<gateVars, sessVars>>

MessageStep(user_id, text) ==
  \/ MessageDenied(user_id, text)
  \/ PlainText(user_id, text)
  \/ cmd_start(user_id, text)
  \/ cmd_help(user_id, text)
  \/ cmd_check(user_id, text)
  \/ cmd_whitelist(user_id, text)
  \/ cmd_add_user(user_id, text)
  \/ cmd_remove_user(user_id, text)
  \/ cmd_debug(user_id, text)

GateNext ==
  \/ LoadWhitelist
  \/ \E user_id \in Ids, text \in Texts : MessageStep(user_id, text)

\* the allow-list manager and the message handlers, from process start
GateSpec == GateInit /\ [][GateNext]_vars


\* ------------------------------------------- WorkingSessionManager
\* Request r is one press of the QR button: its handler (handle_qr_method,
\* create_qr_session) and then the monitoring task the handler spawns. The
\* TelegramClient the request constructs is client r, the record it inserts
\* is record r, and its callback.message is message r.
\*
\* pc: idle -> h_ack -> [c_disc ->] c_connect -> c_qrlogin -> h_photo -> spawned
\*        -> m_wait -> m_settle -> m_ready -> m_send -> cl_disc -> done
\*      with m_unauth, m_report on the failure paths and the ends
\*      failed (create returned False), aborted (handler raised before the
\*      task was created), raised (the task ended in an exception).

QrText == <<"method_qr">>

\* the message of the newest request, whoever its owner is
MessageOf_latest(r) ==
  CHOOSE m \in Slots : pc[m] # "idle" /\ \A q \in Slots : pc[q] # "idle" => q <= m

\* data['client'] and data['message'] of the record task r captured (lines 166-167)
ClientOf(r) == data[r]
MessageOf(r) == data[r]

\* handle_qr_method, line 326: create_qr_session returned False and its text
\* is shown by editing the handler's own message; it answers no arriving text
CreateFailed(r) == Reply(<<>>, owner[r], "create_failed", 0)

\* client.disconnect() is invoked on client c (its effect is taken at the call)
Disconnect(c) ==
  /\ discs' = [discs EXCEPT ![c] = @ + 1]
  /\ conn' = [conn EXCEPT ![c] = "closed"]

\* cleanup_session up to its first await (lines 218-220), or all of it when
\* the owner has no record (lines 218, 225-226)
EnterCleanup(r) ==
  LET user_id == owner[r] IN
  IF active_sessions[user_id] # 0
    THEN /\ Disconnect(active_sessions[user_id])
         /\ ref' = [ref EXCEPT ![r] = active_sessions[user_id]]
         /\ pc' = [pc EXCEPT ![r] = "cl_disc"]
         /\ UNCHANGED user_messages
    ELSE /\ user_messages' = [user_messages EXCEPT ![user_id] = 0]
         /\ pc' = [pc EXCEPT ![r] = "done"]
         /\ UNCHANGED <<ref, conn, discs>>

\* the except blocks of start_qr_monitoring (lines 205-212) and, when there
\* is no message to answer to, the finally block right after them
Fail(r) ==
  /\ trail' = [trail EXCEPT ![r] = [NoTrail EXCEPT !.told = user_messages[owner[r]]]]
  /\ IF user_messages[owner[r]] # 0
       THEN /\ pc' = [pc EXCEPT ![r] = "m_report"]
            /\ UNCHANGED <<user_messages, ref, conn, discs>>
       ELSE EnterCleanup(r)

\* handle_qr_method, lines 288-293: the sender is not allow-listed
HandleQrDenied(user_id) ==
  /\ phase = "run"
  /\ ~is_allowed(whitelist, user_id)
  /\ last' = Reply(QrText, user_id, "alert_denied", 0)
  /\ UNCHANGED <<gateVars, sessVars>>

\* handle_qr_method, lines 288-296: admitted, awaiting callback.answer()
HandleQrMethod(r, user_id) ==
  /\ phase = "run"
  /\ pc[r] = "idle"
  /\ \A q \in Slots : q < r => pc[q] # "idle"
  /\ is_allowed(whitelist, user_id)
  /\ pc' = [pc EXCEPT ![r] = "h_ack"]
  /\ owner' = [owner EXCEPT ![r] = user_id]
  /\ last' = Reply(QrText, user_id, "creating", 0)
  /\ UNCHANGED <<gateVars, tableVars, data, ref, conn, discs, trail>>

\* create_qr_session, lines 117-121 (an old record: disconnect its client)
\* or lines 117-141 (none: construct the client and call connect())
CreateBegin(r) ==
  /\ pc[r] = "h_ack"
  /\ IF active_sessions[owner[r]] # 0
       THEN /\ Disconnect(active_sessions[owner[r]])
            /\ ref' = [ref EXCEPT ![r] = active_sessions[owner[r]]]
            /\ pc' = [pc EXCEPT ![r] = "c_disc"]
       ELSE /\ pc' = [pc EXCEPT ![r] = "c_connect"]
            /\ UNCHANGED <<ref, conn, discs>>
  /\ last' = NoReply
  /\ UNCHANGED <<gateVars, tableVars, owner, data, trail>>

\* lines 121-141: disconnect() of the old client returned or raised
OldDisconnected(r) ==
  /\ pc[r] = "c_disc"
  /\ pc' = [pc EXCEPT ![r] = "c_connect"]
  /\ last' = NoReply
  /\ UNCHANGED <<gateVars, tableVars, owner, data, ref, conn, discs, trail>>

\* lines 141-144, or 157-159 when connect() raised
ConnectDone(r) ==
  /\ pc[r] = "c_connect"
  /\ \E ok \in BOOLEAN :
       IF ok
         THEN /\ conn' = [conn EXCEPT ![r] = "live"]
              /\ pc' = [pc EXCEPT ![r] = "c_qrlogin"]
         ELSE /\ pc' = [pc EXCEPT ![r] = "failed"]
              /\ UNCHANGED conn
  /\ last' = IF pc'[r] = "failed" THEN CreateFailed(r) ELSE NoReply
  /\ UNCHANGED <<gateVars, tableVars, owner, data, ref, discs, trail>>

\* the record inserted before qr_login() is awaited: a failure leaves it behind
QrLoginDone_keeps_record(r) ==
  /\ pc[r] = "c_qrlogin"
  /\ active_sessions' = [active_sessions EXCEPT ![owner[r]] = r]
  /\ user_messages' = [user_messages EXCEPT ![owner[r]] = r]
  /\ \E ok \in BOOLEAN : pc' = [pc EXCEPT ![r] = IF ok THEN "h_photo" ELSE "failed"]
  /\ last' = IF pc'[r] = "failed" THEN CreateFailed(r) ELSE NoReply
  /\ UNCHANGED <<gateVars, owner, data, ref, conn, discs, trail>>

\* lines 144-155 and 300-312, or 157-159 when qr_login() raised
QrLoginDone(r) ==
  /\ pc[r] = "c_qrlogin"
  /\ \E ok \in BOOLEAN :
       IF ok
         THEN /\ active_sessions' = [active_sessions EXCEPT ![owner[r]] = r]
              /\ user_messages' = [user_messages EXCEPT ![owner[r]] = r]
              /\ pc' = [pc EXCEPT ![r] = "h_photo"]
         ELSE /\ pc' = [pc EXCEPT ![r] = "failed"]
              /\ UNCHANGED tableVars
  /\ last' = IF pc'[r] = "failed" THEN CreateFailed(r) ELSE NoReply
  /\ UNCHANGED <<gateVars, owner, data, ref, conn, discs, trail>>

\* lines 312-323: answer_photo returned and the task is created, or raised
PhotoDone(r) ==
  /\ pc[r] = "h_photo"
  /\ \E ok \in BOOLEAN :
       pc' = [pc EXCEPT ![r] = IF ok THEN "spawned" ELSE "aborted"]
  /\ last' = NoReply
  /\ UNCHANGED <<gateVars, tableVars, owner, data, ref, conn, discs, trail>>

\* start_qr_monitoring, lines 163-174: look the record up by owner
MonitorStart(r) ==
  /\ pc[r] = "spawned"
  /\ IF active_sessions[owner[r]] = 0
       THEN /\ pc' = [pc EXCEPT ![r] = "done"]
            /\ UNCHANGED data
       ELSE /\ data' = [data EXCEPT ![r] = active_sessions[owner[r]]]
            /\ pc' = [pc EXCEPT ![r] = "m_wait"]
  /\ last' = NoReply
  /\ UNCHANGED <<gateVars, tableVars, owner, ref, conn, discs, trail>>

\* lines 170-178: the status message and wait_for(qr_login.wait(), 120) end
WaitDone(r) ==
  /\ pc[r] = "m_wait"
  /\ \E res \in {"resolved", "timeout", "error"} :
       IF res = "resolved"
         THEN /\ pc' = [pc EXCEPT ![r] = "m_settle"]
              /\ trail' = [trail EXCEPT ![r].wait = TRUE]
              /\ UNCHANGED <<user_messages, ref, conn, discs>>
         ELSE Fail(r)
  /\ last' = NoReply
  /\ UNCHANGED <<gateVars, active_sessions, owner, data>>

\* the "not completed" branch without its return: the task goes on to export
AuthCheck_no_return(r) ==
  /\ pc[r] = "m_settle"
  /\ \E res \in {"yes", "no", "error"} :
       IF res = "error"
         THEN Fail(r)
         ELSE /\ pc' = [pc EXCEPT ![r] = "m_ready"]
              /\ trail' = [trail EXCEPT ![r].auth = res]
              /\ UNCHANGED <<user_messages, ref, conn, discs>>
  /\ last' = NoReply
  /\ UNCHANGED <<gateVars, active_sessions, owner, data>>

\* lines 177-187: after the settling delay, is_user_authorized() on data['client']
AuthCheck(r) ==
  /\ pc[r] = "m_settle"
  /\ \E res \in {"yes", "no", "error"} :
       IF res = "error"
         THEN Fail(r)
         ELSE /\ pc' = [pc EXCEPT ![r] = IF res = "yes" THEN "m_ready" ELSE "m_unauth"]
              /\ trail' = [trail EXCEPT ![r].auth = res]
              /\ UNCHANGED <<user_messages, ref, conn, discs>>
  /\ last' = NoReply
  /\ UNCHANGED <<gateVars, active_sessions, owner, data>>

\* lines 184-185: the "not completed" message was sent (return), or raised
UnauthDone(r) ==
  /\ pc[r] = "m_unauth"
  /\ \E ok \in BOOLEAN :
       IF ok
         THEN /\ trail' = [trail EXCEPT ![r] = [NoTrail EXCEPT !.told = MessageOf(r)]]
              /\ EnterCleanup(r)
         ELSE Fail(r)
  /\ last' = NoReply
  /\ UNCHANGED <<gateVars, active_sessions, owner, data>>

\* lines 187-195: session.save() and the document is handed to the transport
Export(r) ==
  /\ pc[r] = "m_ready"
  /\ \E ok \in BOOLEAN :
       IF ok
         THEN /\ pc' = [pc EXCEPT ![r] = "m_send"]
              /\ trail' = [trail EXCEPT ![r].cred = ClientOf(r), ![r].to = MessageOf(r)]
              /\ UNCHANGED <<user_messages, ref, conn, discs>>
         ELSE Fail(r)
  /\ last' = NoReply
  /\ UNCHANGED <<gateVars, active_sessions, owner, data>>

\* lines 195-203: both sends returned, or one raised
SendDone(r) ==
  /\ pc[r] = "m_send"
  /\ \E ok \in BOOLEAN :
       IF ok
         THEN /\ trail' = [trail EXCEPT ![r] = [NoTrail EXCEPT !.sent = TRUE]]
              /\ EnterCleanup(r)
         ELSE Fail(r)
  /\ last' = NoReply
  /\ UNCHANGED <<gateVars, active_sessions, owner, data>>

\* lines 208/212 -> 214: the failure message was sent (or raised)
ReportDone(r) ==
  /\ pc[r] = "m_report"
  /\ EnterCleanup(r)
  /\ last' = NoReply
  /\ UNCHANGED <<gateVars, active_sessions, owner, data, trail>>

\* cleanup_session, lines 220-226: disconnect() returned or raised
CleanupDone(r) ==
  /\ pc[r] = "cl_disc"
  /\ IF active_sessions[owner[r]] = 0
       THEN \* del self.active_sessions[user_id] raises KeyError
            /\ pc' = [pc EXCEPT ![r] = "raised"]
            /\ UNCHANGED tableVars
       ELSE /\ active_sessions' = [active_sessions EXCEPT ![owner[r]] = 0]
            /\ user_messages' = [user_messages EXCEPT ![owner[r]] = 0]
            /\ pc' = [pc EXCEPT ![r] = "done"]
  /\ last' = NoReply
  /\ UNCHANGED <<gateVars, owner, data, ref, conn, discs, trail>>

\* the steps of a request that displaces no earlier record
RequestStep(r) ==
  \/ CreateBegin(r)
  \/ ConnectDone(r)
  \/ QrLoginDone(r)
  \/ PhotoDone(r)
  \/ MonitorStart(r)
  \/ WaitDone(r)
  \/ AuthCheck(r)
  \/ UnauthDone(r)
  \/ Export(r)
  \/ SendDone(r)
  \/ ReportDone(r)
  \/ CleanupDone(r)

SessionStep(r) ==
  \/ OldDisconnected(r)
  \/ RequestStep(r)

\* after construction, from a store the program wrote itself: everybody is
\* allow-listed, or everybody but the last identity
Init ==
  /\ phase = "run"
  /\ whitelist \in {Ids, Ids \ {MaxId}}
  /\ file = JsonFile(CHOOSE s \in ListsOf(whitelist) : TRUE)
  /\ last = NoReply
  /\ NoSessions

Next ==
  \/ \E user_id \in Ids : HandleQrDenied(user_id)
  \/ \E r \in Slots, user_id \in Ids : HandleQrMethod(r, user_id)
  \/ \E r \in Slots : SessionStep(r)

\* the QR button, the session manager and its tasks
Spec == Init /\ [][Next]_vars


\* ------------------------------------------------- the whole program
\* The message handlers next to one QR request (request 1) from its admission
\* to the end of its monitoring task. A single request finds no earlier record
\* of its owner, so OldDisconnected is never enabled here and is not listed.
FullNext ==
  \/ \E user_id \in Ids, text \in Texts : MessageStep(user_id, text)
  \/ \E user_id \in Ids : HandleQrDenied(user_id)
  \/ \E user_id \in Ids : HandleQrMethod(1, user_id)
  \/ RequestStep(1)

FullSpec == Init /\ [][FullNext]_vars


\* ============================================================ properties
Started(user_id) == {r \in Slots : pc[r] # "idle" /\ owner[r] = user_id}
LiveClients(user_id) == {c \in Started(user_id) : conn[c] = "live"}
\* every create call made for the owner has returned True and no task has run yet
OnlyCreatesReturned(user_id) ==
  /\ Started(user_id) # {}
  /\ \A r \in Started(user_id) : pc[r] \in {"h_photo", "spawned", "aborted"}

\* C1: once the create_qr_session calls made for an owner have returned (no
\* monitoring task has run yet), exactly one client opened for that owner is
\* live, and it is the client of the owner's record in the table.
C1_SingleSessionPerOwner ==
  \A user_id \in Ids :
    OnlyCreatesReturned(user_id) =>
      LiveClients(user_id) = {active_sessions[user_id]}

\* C2: when a monitoring task has ended, disconnect() has been invoked exactly
\* once on the client of the record it monitored, and that record is no
\* longer in the table.
C2_TerminalCleanup ==
  \A r \in Slots :
    (pc[r] \in {"done", "raised"} /\ data[r] # 0) =>
      /\ discs[data[r]] = 1
      /\ active_sessions[owner[r]] # data[r]

\* C3: the client a monitoring task's cleanup_session disconnects is the
\* client of the record that task monitored, never the one of a newer record.
C3_DisplacedTaskIsolation ==
  \A r \in Slots : pc[r] = "cl_disc" => ref[r] = data[r]

\* C4: after a create_qr_session call has disconnected the owner's old client
\* and until it inserts its own record, the table does not map the owner to
\* the old record.
C4_DisplacementOrdering ==
  \A r \in Slots :
    (pc[r] \in {"c_connect", "c_qrlogin"} /\ ref[r] # 0) =>
      active_sessions[owner[r]] # ref[r]

Restricted(text) == text = QrText \/ CommandOf(text) \notin public_commands
Denials == {"denied", "alert_denied", "no_access"}

\* C5: an input of a sender who is not allow-listed when it arrives is denied
\* and changes neither the session state nor the allow-list nor its store,
\* unless it is /start or /help, which reach their handlers.
C5_AdmissionInvariant ==
  [][(last'.text \in Texts \cup {QrText} /\ ~is_allowed(whitelist, last'.from)) =>
       IF Restricted(last'.text)
         THEN /\ last'.out \in Denials
              /\ UNCHANGED <<sessVars, whitelist, file>>
         ELSE last'.out \in {"welcome_denied", "help", "help_admin"}]_vars

\* a denied sender whose own record is in the table
C5_Witness ==
  /\ last.out \in Denials
  /\ ~is_allowed(whitelist, last.from)
  /\ active_sessions[last.from] # 0

\* C6: after the admin has sent /add x, x is in the allow-list and in the
\* store, and /start of an allow-listed sender is answered with the entry point.
C6_AdminCanGrant ==
  /\ (/\ last.from = ADMIN_ID
      /\ Len(last.text) = 2
      /\ last.text[1] = "/add"
      /\ IsInt(last.text[2])) =>
        /\ is_allowed(whitelist, ParseInt(last.text[2]))
        /\ ParseInt(last.text[2]) \in Persisted(file)
  /\ (last.text = <<"/start">> /\ is_allowed(whitelist, last.from)) =>
        last.out = "entry"

\* C7: the allow-list and its store change only in a step that answers an
\* /add <id> or /remove <id> sent by ADMIN_ID.
C7_AdminOnlyMutation ==
  [][(whitelist' # whitelist \/ file' # file) =>
       /\ last'.from = ADMIN_ID
       /\ Len(last'.text) = 2
       /\ CommandOf(last'.text) \in {"add", "remove"}
       /\ last'.out \in {"added", "removed"}]_vars

\* an allow-listed sender other than the admin asked for a mutation
C7_Witness ==
  /\ last.from # ADMIN_ID
  /\ is_allowed(whitelist, last.from)
  /\ Len(last.text) = 2
  /\ CommandOf(last.text) \in {"add", "remove"}
  /\ last.out = "admin_only"

\* C8: add_user(x) leaves x allowed and remove_user(x) leaves it not allowed;
\* each returns True exactly when it changed the set, and a call that changes
\* nothing leaves the set and the store alone and calls no save.
C8_AllowListRoundTrip ==
  [][\A x \in Ids :
       /\ (last'.text = <<"/add", IdToken(x)>> /\ last'.out \in {"added", "already"}) =>
            /\ is_allowed(whitelist', x)
            /\ (last'.out = "added") = ~is_allowed(whitelist, x)
            /\ is_allowed(whitelist, x) =>
                 (whitelist' = whitelist /\ file' = file /\ last'.saves = 0)
       /\ (last'.text = <<"/remove", IdToken(x)>> /\ last'.out \in {"removed", "not_found"}) =>
            /\ ~is_allowed(whitelist', x)
            /\ (last'.out = "removed") = is_allowed(whitelist, x)
            /\ ~is_allowed(whitelist, x) =>
                 (whitelist' = whitelist /\ file' = file /\ last'.saves = 0)]_vars

\* add_user of a member: False, nothing written
C8_Witness ==
  /\ last.out = "already"
  /\ last.saves = 0
  /\ is_allowed(whitelist, ParseInt(last.text[2]))

\* C9: after add_user or remove_user returned True, and after construction
\* with the store absent, the store exists and records the in-memory set.
C9_DurableAllowList ==
  (\/ last.out \in {"added", "removed"}
   \/ (last.text = <<"load">> /\ last.saves = 1)) =>
     (file.kind = "json" /\ Persisted(file) = whitelist)

\* C10: after load_whitelist failed on an existing store, the in-memory set
\* is empty and the store holds the empty member list.
C10_LoadFailureFallback ==
  (last.text = <<"load">> /\ last.out = "load_error") =>
    (whitelist = {} /\ file = JsonFile(<<>>))

Ended(r) == pc[r] \in {"cl_disc", "done", "raised"}
Finished == {"failed", "aborted", "done", "raised"}

\* C11: a monitoring run that captured a record and reached its cleanup
\* without having delivered the credential has sent a failure message.
C11_FailureReporting ==
  \A r \in Slots :
    (Ended(r) /\ data[r] # 0 /\ ~trail[r].sent) => trail[r].told # 0

\* C12: a create_qr_session call that returned False has inserted no record
\* and no delivery target, no task monitors its record, and no task ran for it.
C12_HandshakeBeginFailure ==
  \A r \in Slots :
    pc[r] = "failed" =>
      /\ active_sessions[owner[r]] # r
      /\ user_messages[owner[r]] # r
      /\ \A q \in Slots : data[q] # r
      /\ trail[r] = NoTrail

\* qr_login() raised after connect() had succeeded, and the handler said so
C12_Witness ==
  \E r \in Slots :
    /\ pc[r] = "failed"
    /\ conn[r] = "live"
    /\ last = CreateFailed(r)

\* C13: /check of an allow-listed sender answers "active" exactly when the
\* session table holds a record of the sender, changes no table and not the
\* allow-list, and answers "inactive" once the sender's monitoring has closed.
C13_StatusQuery ==
  [][(last'.text = <<"/check">> /\ is_allowed(whitelist, last'.from)) =>
       /\ last'.out \in {"active", "inactive"}
       /\ (last'.out = "active") = (active_sessions[last'.from] # 0)
       /\ UNCHANGED <<sessVars, gateVars>>
       /\ (pc[1] = "done" /\ owner[1] = last'.from) => last'.out = "inactive"]_vars

\* /check after the sender's monitoring run failed, said so and closed
C13_Witness ==
  /\ last.text = <<"/check">>
  /\ last.out = "inactive"
  /\ pc[1] = "done"
  /\ owner[1] = last.from
  /\ data[1] = 1
  /\ ~trail[1].sent
  /\ trail[1].told = 1

\* C14: a task exports or sends credential material only when its wait on
\* the ticket has returned and is_user_authorized() has then returned True.
C14_DeliveryOnlyAfterAuthorization ==
  \A r \in Slots :
    (pc[r] = "m_send" \/ trail[r].cred # 0 \/ trail[r].to # 0) =>
      (trail[r].wait /\ trail[r].auth = "yes")

\* one task is sending while another one has failed and has sent nothing
C14_Witness ==
  \E r, q \in Slots :
    /\ pc[r] = "m_send"
    /\ trail[r].cred # 0
    /\ pc[q] = "done"
    /\ data[q] # 0
    /\ ~trail[q].sent

\* C15: once every request has run to its end, no client is left connected
\* and no record is left in the session table.
C15_EveryConnectionReleased ==
  (\A r \in Slots : pc[r] \in Finished \cup {"idle"}) =>
    \A r \in Slots :
      pc[r] # "idle" => (conn[r] # "live" /\ active_sessions[owner[r]] # r)

\* C16: no two monitoring tasks are past a wait on the ticket of the same record.
C16_TicketConsumedOnce ==
  \A r, q \in Slots :
    (r # q /\ data[r] # 0 /\ data[r] = data[q]) => ~(trail[r].wait /\ trail[q].wait)

\* C17: no task gets an answer from is_user_authorized() or exports from a
\* client on which disconnect() has been invoked, and the session table holds
\* no record whose client has been disconnected.
C17_NoUseOfReleasedConnection ==
  [][/\ \A r \in Slots :
          ((pc[r] = "m_settle" /\ pc'[r] \in {"m_ready", "m_unauth"})
             \/ (pc[r] = "m_ready" /\ pc'[r] = "m_send"))
          => conn[ClientOf(r)] # "closed"
     /\ \A u \in Ids :
          active_sessions'[u] # 0 => conn'[active_sessions'[u]] # "closed"]_vars

\* C18: no cleanup_session call raises.
C18_CleanupNeverRaises == \A r \in Slots : pc[r] # "raised"

\* C19: a credential is handed only to a message of the owner for whom its
\* client was created, and that owner is allow-listed.
C19_CredentialOnlyToOwner ==
  \A r \in Slots :
    trail[r].cred # 0 =>
      /\ trail[r].to # 0
      /\ owner[trail[r].to] = owner[trail[r].cred]
      /\ is_allowed(whitelist, owner[trail[r].cred])

\* a credential on its way while a request of another owner is under way
C19_Witness ==
  \E r, q \in Slots :
    /\ pc[r] = "m_send"
    /\ trail[r].cred # 0
    /\ pc[q] \notin Finished \cup {"idle"}
    /\ owner[q] # owner[trail[r].cred]

\* C20: a step that changes the allow-list or its store changes nothing of
\* the sessions, and a step that changes anything of the sessions changes
\* neither the allow-list nor its store.
C20_GateSessionIndependence ==
  [][/\ (whitelist' # whitelist \/ file' # file) => UNCHANGED sessVars
     /\ sessVars' # sessVars => UNCHANGED gateVars
     /\ (Len(last'.text) = 2 /\ CommandOf(last'.text) \in {"add", "remove"}) =>
          UNCHANGED sessVars]_vars

\* the owner of a session under way has just been removed from the allow-list
C20_Witness ==
  /\ last.out = "removed"
  /\ ParseInt(last.text[2]) = owner[1]
  /\ active_sessions[owner[1]] = 1
  /\ pc[1] = "m_wait"
  /\ ~is_allowed(whitelist, owner[1])

====
